---------------------------- MODULE Spec2Model ----------------------------
(***************************************************************************)
(* A model of the monster-hunt simulation: a single agent on an R x C grid *)
(* hunting rotating monsters.  The repository holds several variants of    *)
(* the same core; the model keeps them apart by the variable `variant`:    *)
(*   "AStar1"        src/AStar1.py          A* search, current-facing      *)
(*   "AstarManhatin" src/Astar+Manhatin.py  A* (no closed set)             *)
(*   "SimpleBFS"     src/SimpleBFS.py       BFS, current-facing            *)
(*   "monster_hunt"  src/monster_hunt.py    BFS, one-turn lookahead        *)
(*   "BasicBFS"      src/BasicBFS.py        BFS on what the agent has seen *)
(* ("AStar1_example" is AStar1.py on the 5 x 5 grid of the worked example.) *)
(* One Step action is one call of Environment.step() of the variant.       *)
(***************************************************************************)
EXTENDS Integers, Sequences, FiniteSets, TLC

VARIABLES
    variant,    \* which script the environment was built by
    agent,      \* [r, c, level, kills, alive, known_monsters], BasicBFS also known_free
    monsters,   \* env.monsters in insertion order: Seq of [r, c, level, facing, turns_seen]
    turn,       \* env.turn
    last        \* what the latest step() call did (its intent and what it saw)

vars == <<variant, agent, monsters, turn, last>>

-----------------------------------------------------------------------------
(* Bounds of the model *)

Rows == 3
Cols == 3
NMonsters == 2
MaxTurn == 8

-----------------------------------------------------------------------------
(* Directions *)

NORTH == 1
SOUTH == 2
WEST == 3
EAST == 4

all_directions == <<NORTH, SOUTH, WEST, EAST>>

direction_vector(direction) ==
    CASE direction = NORTH -> <<-1, 0>>
      [] direction = SOUTH -> <<1, 0>>
      [] direction = WEST -> <<0, -1>>
      [] direction = EAST -> <<0, 1>>

rotation_order == <<NORTH, EAST, SOUTH, WEST>>

\* rotation_order.index(facing), 0-based
rotation_index(facing) == (CHOOSE i \in 1..4 : rotation_order[i] = facing) - 1

abs(x) == IF x < 0 THEN -x ELSE x

Cells == {<<r, c>> : r \in 0..(Rows - 1), c \in 0..(Cols - 1)}

\* the grid of the worked example: Environment(R = 5, C = 5, n_monsters = 1)
ExampleGrid == [R |-> 5, C |-> 5]

\* env.R and env.C: the example's environment has its own size
env_R == IF variant = "AStar1_example" THEN ExampleGrid.R ELSE Rows

env_C == IF variant = "AStar1_example" THEN ExampleGrid.C ELSE Cols

\* a slip: the bounds test off by one
in_bounds_loose(r, c) == 0 <= r /\ r <= env_R /\ 0 <= c /\ c <= env_C

in_bounds(r, c) == 0 <= r /\ r < env_R /\ 0 <= c /\ c < env_C

\* the cell one step from pos in the given direction
step_cell(pos, direction) ==
    <<pos[1] + direction_vector(direction)[1], pos[2] + direction_vector(direction)[2]>>

-----------------------------------------------------------------------------
(* Monster *)

\* a slip: the monster turns on the odd counts
rotate_on_odd(m) ==
    LET seen == m.turns_seen + 1 IN
    IF seen % 2 = 1
    THEN [m EXCEPT !.turns_seen = seen,
                   !.facing = rotation_order[((rotation_index(m.facing) + 1) % 4) + 1]]
    ELSE [m EXCEPT !.turns_seen = seen]

\* Monster.rotate_if_needed
rotate_if_needed(m) ==
    LET seen == m.turns_seen + 1 IN
    IF seen % 2 = 0
    THEN [m EXCEPT !.turns_seen = seen,
                   !.facing = rotation_order[((rotation_index(m.facing) + 1) % 4) + 1]]
    ELSE [m EXCEPT !.turns_seen = seen]

mon_pos(m) == <<m.r, m.c>>

\* the cell directly ahead of a monster's facing (may be out of bounds)
ahead(m) == step_cell(mon_pos(m), m.facing)

\* env.monsters as a dict: its keys, lookup and pop
monster_keys(ms) == {mon_pos(ms[i]) : i \in 1..Len(ms)}

has_monster(ms, pos) == \E i \in 1..Len(ms) : mon_pos(ms[i]) = pos

monster_at(ms, pos) == ms[CHOOSE i \in 1..Len(ms) : mon_pos(ms[i]) = pos]

\* a slip: the attack clears the collection
pop_monster_all(ms, pos) == SelectSeq(ms, LAMBDA m : FALSE)

\* a slip: the attacked monster stays in the collection
pop_monster_kept(ms, pos) == ms

pop_monster(ms, pos) == SelectSeq(ms, LAMBDA m : mon_pos(m) # pos)

\* a slip: monster cells are not blocked
blocked_positions_none(ms) == {}

\* Environment.blocked_positions
blocked_positions(ms) == monster_keys(ms)

\* a slip: no cell counts as dangerous
dangerous_positions_none(ms) == {}

\* Environment.dangerous_positions
dangerous_positions(ms) ==
    {ahead(ms[i]) : i \in {j \in 1..Len(ms) : in_bounds(ahead(ms[j])[1], ahead(ms[j])[2])}}

-----------------------------------------------------------------------------
(* Grid search: AStar1.py, Agent.astar *)

\* Agent.heuristic: Manhattan distance
heuristic(r, c, goal) == abs(r - goal[1]) + abs(c - goal[2])

\* a slip: the newest entry is popped whatever its priority
heap_newest(open_heap) == CHOOSE e \in open_heap : \A o \in open_heap : e.n >= o.n

\* heapq.heappop on entries (f, counter, ...): the least f, then the least counter
heap_min(open_heap) ==
    CHOOSE e \in open_heap :
        \A o \in open_heap : e.f < o.f \/ (e.f = o.f /\ e.n <= o.n)

\* dict assignment d[key] = value
dict_set(d, key, value) ==
    [x \in (DOMAIN d) \cup {key} |-> IF x = key THEN value ELSE d[x]]

RECURSIVE astar_expand(_, _, _, _, _, _)
\* the loop over directions for the popped entry e, from the k-th direction on
astar_expand(st, e, k, goal, blocked, dangerous) ==
    IF k > Len(all_directions) THEN st
    ELSE
      LET direction == all_directions[k]
          neighbor == step_cell(e.pos, direction)
          tentative_g == st.g_score[e.pos] + 1
      IN
      IF /\ in_bounds(neighbor[1], neighbor[2])
         /\ neighbor \notin st.visited
         /\ neighbor \notin blocked
         /\ neighbor \notin dangerous
         /\ (neighbor \notin DOMAIN st.g_score \/ tentative_g < st.g_score[neighbor])
      THEN astar_expand(
             [open_heap |-> st.open_heap \cup
                            {[f |-> tentative_g + heuristic(neighbor[1], neighbor[2], goal),
                              n |-> st.counter + 1,
                              pos |-> neighbor,
                              path |-> Append(e.path, direction)]},
              g_score |-> dict_set(st.g_score, neighbor, tentative_g),
              visited |-> st.visited,
              counter |-> st.counter + 1],
             e, k + 1, goal, blocked, dangerous)
      ELSE astar_expand(st, e, k + 1, goal, blocked, dangerous)

RECURSIVE astar_loop(_, _, _, _)
\* the while-loop of astar
astar_loop(st, goal, blocked, dangerous) ==
    IF st.open_heap = {} THEN <<>>
    ELSE
      LET e == heap_min(st.open_heap)
          popped == [st EXCEPT !.open_heap = @ \ {e}]
      IN
      IF e.pos \in st.visited THEN astar_loop(popped, goal, blocked, dangerous)
      ELSE IF e.pos = goal THEN e.path
      ELSE astar_loop(
             astar_expand([popped EXCEPT !.visited = @ \cup {e.pos}],
                          e, 1, goal, blocked, dangerous),
             goal, blocked, dangerous)

\* a slip: the search does not avoid the cells the monsters face
astar_unsafe(start, ms, goal) ==
    astar_loop(
      [open_heap |-> {[f |-> heuristic(start[1], start[2], goal),
                       n |-> 0, pos |-> start, path |-> <<>>]},
       g_score |-> (start :> 0),
       visited |-> {},
       counter |-> 0],
      goal, blocked_positions(ms), {})

\* Agent.astar(env, goal): the path as a sequence of directions, <<>> if none
astar(start, ms, goal) ==
    astar_loop(
      [open_heap |-> {[f |-> heuristic(start[1], start[2], goal),
                       n |-> 0, pos |-> start, path |-> <<>>]},
       g_score |-> (start :> 0),
       visited |-> {},
       counter |-> 0],
      goal, blocked_positions(ms), dangerous_positions(ms))

-----------------------------------------------------------------------------
(* Grid search: Astar+Manhatin.py, Agent.astar (no closed set) *)

RECURSIVE astar_AM_expand(_, _, _, _, _, _)
astar_AM_expand(st, e, k, goal, blocked, dangerous) ==
    IF k > Len(all_directions) THEN st
    ELSE
      LET direction == all_directions[k]
          neighbor == step_cell(e.pos, direction)
          new_g == e.g + 1
      IN
      IF /\ in_bounds(neighbor[1], neighbor[2])
         /\ ~(neighbor \in blocked \/ neighbor \in dangerous)
         /\ (neighbor \notin DOMAIN st.reached \/ new_g < st.reached[neighbor])
      THEN astar_AM_expand(
             [frontier |-> st.frontier \cup
                           {[f |-> new_g + heuristic(neighbor[1], neighbor[2], goal),
                             n |-> st.counter + 1,
                             pos |-> neighbor,
                             path |-> Append(e.path, direction),
                             g |-> new_g]},
              reached |-> dict_set(st.reached, neighbor, new_g),
              counter |-> st.counter + 1],
             e, k + 1, goal, blocked, dangerous)
      ELSE astar_AM_expand(st, e, k + 1, goal, blocked, dangerous)

RECURSIVE astar_AM_loop(_, _, _, _)
astar_AM_loop(st, goal, blocked, dangerous) ==
    IF st.frontier = {} THEN <<>>
    ELSE
      LET e == heap_min(st.frontier)
          popped == [st EXCEPT !.frontier = @ \ {e}]
      IN
      IF e.pos = goal THEN e.path
      ELSE astar_AM_loop(astar_AM_expand(popped, e, 1, goal, blocked, dangerous),
                         goal, blocked, dangerous)

astar_AM(start, ms, goal) ==
    astar_AM_loop(
      [frontier |-> {[f |-> heuristic(start[1], start[2], goal),
                      n |-> 0, pos |-> start, path |-> <<>>, g |-> 0]},
       reached |-> (start :> 0),
       counter |-> 0],
      goal, blocked_positions(ms), dangerous_positions(ms))

-----------------------------------------------------------------------------
(* Grid search: SimpleBFS.py, Agent.find_path *)

RECURSIVE find_path_expand(_, _, _, _, _)
find_path_expand(st, cur, k, blocked, dangerous) ==
    IF k > Len(all_directions) THEN st
    ELSE
      LET direction == all_directions[k]
          n == step_cell(cur.pos, direction)
      IN
      IF /\ in_bounds(n[1], n[2])
         /\ n \notin st.visited
         /\ n \notin blocked
         /\ n \notin dangerous
      THEN find_path_expand(
             [queue |-> Append(st.queue, [pos |-> n, path |-> Append(cur.path, direction)]),
              visited |-> st.visited \cup {n}],
             cur, k + 1, blocked, dangerous)
      ELSE find_path_expand(st, cur, k + 1, blocked, dangerous)

RECURSIVE find_path_loop(_, _, _, _)
find_path_loop(st, goal, blocked, dangerous) ==
    IF st.queue = <<>> THEN <<>>
    ELSE
      LET cur == Head(st.queue)
          popped == [st EXCEPT !.queue = Tail(@)]
      IN
      IF cur.pos = goal THEN cur.path
      ELSE find_path_loop(find_path_expand(popped, cur, 1, blocked, dangerous),
                          goal, blocked, dangerous)

\* Agent.find_path(env, goal_r, goal_c)
find_path(start, ms, goal) ==
    find_path_loop([queue |-> <<[pos |-> start, path |-> <<>>]>>, visited |-> {start}],
                   goal, blocked_positions(ms), dangerous_positions(ms))

-----------------------------------------------------------------------------
(* Grid search: monster_hunt.py, Agent.bfs (monster cells only are blocked) *)

RECURSIVE bfs_expand(_, _, _, _)
bfs_expand(st, cur, k, blocked) ==
    IF k > Len(all_directions) THEN st
    ELSE
      LET d == all_directions[k]
          n == step_cell(cur.pos, d)
      IN
      IF /\ in_bounds(n[1], n[2])
         /\ n \notin st.visited
         /\ n \notin blocked
      THEN bfs_expand(
             [q |-> Append(st.q, [pos |-> n, path |-> Append(cur.path, d)]),
              visited |-> st.visited \cup {n}],
             cur, k + 1, blocked)
      ELSE bfs_expand(st, cur, k + 1, blocked)

RECURSIVE bfs_loop(_, _, _)
bfs_loop(st, goal, blocked) ==
    IF st.q = <<>> THEN <<>>
    ELSE
      LET cur == Head(st.q)
          popped == [st EXCEPT !.q = Tail(@)]
      IN
      IF cur.pos = goal THEN cur.path
      ELSE bfs_loop(bfs_expand(popped, cur, 1, blocked), goal, blocked)

\* Agent.bfs(env, goal)
bfs(start, ms, goal) ==
    bfs_loop([q |-> <<[pos |-> start, path |-> <<>>]>>, visited |-> {start}],
             goal, blocked_positions(ms))

-----------------------------------------------------------------------------
(* Target lists and their ordering *)

\* Python's tuple comparison on two tuples of integers of the same length
tuple_less(a, b) ==
    \E i \in 1..Len(a) :
        /\ a[i] < b[i]
        /\ \A j \in 1..(i - 1) : a[j] = b[j]

RECURSIVE sorted(_)
\* list.sort() of a list of distinct tuples, given as a set
sorted(S) ==
    IF S = {} THEN <<>>
    ELSE LET least == CHOOSE x \in S : \A y \in S \ {x} : tuple_less(x, y)
         IN <<least>> \o sorted(S \ {least})

manhattan(p, q) == abs(p[1] - q[1]) + abs(p[2] - q[2])

agent_pos(a) == <<a.r, a.c>>

WAIT == [action |-> "WAIT", arg |-> <<>>]

\* the search each current-facing variant's plan_action calls
search(v, start, ms, goal) ==
    CASE v = "AStar1" -> astar(start, ms, goal)
      [] v = "AstarManhatin" -> astar_AM(start, ms, goal)
      [] v = "SimpleBFS" -> find_path(start, ms, goal)

\* a slip: only the cell the target looks at is taken as an approach cell
safe_positions_ahead(ms, target_pos, facing) ==
    LET dirs == SelectSeq(all_directions,
                  LAMBDA d : /\ in_bounds(step_cell(target_pos, d)[1], step_cell(target_pos, d)[2])
                             /\ step_cell(target_pos, d) \notin blocked_positions(ms)
                             /\ d = facing)
    IN [i \in 1..Len(dirs) |-> step_cell(target_pos, dirs[i])]

\* the cells around the target that are in bounds, hold no monster and are
\* not in the direction `facing`, in the order of all_directions
safe_positions(ms, target_pos, facing) ==
    LET dirs == SelectSeq(all_directions,
                  LAMBDA d : /\ in_bounds(step_cell(target_pos, d)[1], step_cell(target_pos, d)[2])
                             /\ step_cell(target_pos, d) \notin blocked_positions(ms)
                             /\ d # facing)
    IN [i \in 1..Len(dirs) |-> step_cell(target_pos, dirs[i])]

RECURSIVE first_path(_, _, _, _, _)
\* "for spot in safe_positions: path = search(spot); if path: return MOVE path[0]"
\* the first non-empty path, <<>> when no spot yields one
first_path(v, a, ms, spots, i) ==
    IF i > Len(spots) THEN <<>>
    ELSE LET path == search(v, agent_pos(a), ms, spots[i])
         IN IF path # <<>> THEN path ELSE first_path(v, a, ms, spots, i + 1)

\* a slip: only the target in hand is tried, the next ones never
try_targets_first_only(v, a, ms, targets, i) ==
    LET t == targets[i]
        target_pos == <<t[Len(t) - 1], t[Len(t)]>>
        path == first_path(v, a, ms,
                           safe_positions(ms, target_pos, monster_at(ms, target_pos).facing), 1)
    IN
    IF manhattan(target_pos, agent_pos(a)) = 1
    THEN [action |-> "ATTACK", arg |-> target_pos]
    ELSE IF path # <<>> THEN [action |-> "MOVE", arg |-> path[1]]
    ELSE WAIT

RECURSIVE try_targets(_, _, _, _, _)
\* the loop over the sorted targets of AStar1.py, Astar+Manhatin.py and
\* SimpleBFS.py; a target tuple ends with the monster's row and column
try_targets(v, a, ms, targets, i) ==
    IF i > Len(targets) THEN WAIT
    ELSE
      LET t == targets[i]
          target_pos == <<t[Len(t) - 1], t[Len(t)]>>
          path == first_path(v, a, ms,
                             safe_positions(ms, target_pos, monster_at(ms, target_pos).facing), 1)
      IN
      IF manhattan(target_pos, agent_pos(a)) = 1
      THEN [action |-> "ATTACK", arg |-> target_pos]
      ELSE IF path # <<>> THEN [action |-> "MOVE", arg |-> path[1]]
      ELSE try_targets(v, a, ms, targets, i + 1)

-----------------------------------------------------------------------------
(* Agent.perceive and Agent.plan_action of the current-facing variants *)

\* Agent.perceive (AStar1.py, SimpleBFS.py): adjacent monsters enter the cache
perceive(a, ms) ==
    a.known_monsters \cup
    {step_cell(agent_pos(a), all_directions[k]) : k \in
        {j \in 1..4 : LET n == step_cell(agent_pos(a), all_directions[j])
                      IN in_bounds(n[1], n[2]) /\ has_monster(ms, n)}}

\* a slip: nothing is dropped from the cache
prune_none(known, ms) == known

\* the cache without the positions that hold no monster any more
prune(known, ms) == {pos \in known : has_monster(ms, pos)}

\* a slip: the level filter is missing
viable_indices_all(a, ms) == 1..Len(ms)

viable_indices(a, ms) == {i \in 1..Len(ms) : ms[i].level <= a.level}

\* a slip: the level is not negated, so the lower level comes first
plan_action_AStar1_low_first(a, ms) ==
    LET targets == sorted({<<manhattan(mon_pos(ms[i]), agent_pos(a)), ms[i].level,
                             ms[i].r, ms[i].c>> : i \in viable_indices(a, ms)})
        intent == IF targets = <<>> THEN WAIT
                  ELSE try_targets("AStar1", a, ms, targets, 1)
    IN [action |-> intent.action, arg |-> intent.arg,
        known_monsters |-> prune(perceive(a, ms), ms)]

\* AStar1.py plan_action: intent and the cache it leaves
plan_action_AStar1(a, ms) ==
    LET targets == sorted({<<manhattan(mon_pos(ms[i]), agent_pos(a)), -ms[i].level,
                             ms[i].r, ms[i].c>> : i \in viable_indices(a, ms)})
        intent == IF targets = <<>> THEN WAIT
                  ELSE try_targets("AStar1", a, ms, targets, 1)
    IN [action |-> intent.action, arg |-> intent.arg,
        known_monsters |-> prune(perceive(a, ms), ms)]

\* Astar+Manhatin.py plan_action: no perceive call
plan_action_AM(a, ms) ==
    LET viable == sorted({<<manhattan(mon_pos(ms[i]), agent_pos(a)), -ms[i].level,
                            ms[i].r, ms[i].c>> : i \in viable_indices(a, ms)})
        intent == IF viable = <<>> THEN WAIT
                  ELSE try_targets("AstarManhatin", a, ms, viable, 1)
    IN [action |-> intent.action, arg |-> intent.arg,
        known_monsters |-> prune(a.known_monsters, ms)]

\* SimpleBFS.py plan_action: targets are (dist, level, mr, mc)
plan_action_SB(a, ms) ==
    LET targets == sorted({<<manhattan(mon_pos(ms[i]), agent_pos(a)), ms[i].level,
                             ms[i].r, ms[i].c>> : i \in viable_indices(a, ms)})
        intent == IF targets = <<>> THEN WAIT
                  ELSE try_targets("SimpleBFS", a, ms, targets, 1)
    IN [action |-> intent.action, arg |-> intent.arg,
        known_monsters |-> prune(perceive(a, ms), ms)]

-----------------------------------------------------------------------------
(* monster_hunt.py: lookahead planning *)

\* a slip: the facing of this turn is taken for the next one
predict_facing_stale(mon) == mon.facing

\* Agent.predict_facing
predict_facing(mon) ==
    LET will_rotate == ((mon.turns_seen + 1) % 2 = 0)
    IN IF will_rotate THEN rotation_order[((rotation_index(mon.facing) + 1) % 4) + 1]
       ELSE mon.facing

\* step 1 of plan_action: monsters within 2 rows and 2 columns are recorded
\* as (position, level, turn); the cache is a set of such triples, one per position
remember(a, ms, env_turn) ==
    LET near == {i \in 1..Len(ms) : abs(ms[i].r - a.r) <= 2 /\ abs(ms[i].c - a.c) <= 2}
        fresh == {mon_pos(ms[i]) : i \in near}
    IN {k \in a.known_monsters : k[1] \notin fresh} \cup
       {<<mon_pos(ms[i]), ms[i].level, env_turn>> : i \in near}

RECURSIVE first_bfs_path(_, _, _, _)
first_bfs_path(a, ms, goals, i) ==
    IF i > Len(goals) THEN <<>>
    ELSE LET path == bfs(agent_pos(a), ms, goals[i])
         IN IF path # <<>> THEN path ELSE first_bfs_path(a, ms, goals, i + 1)

\* monster_hunt.py plan_action
plan_action_MH(a, ms, env_turn) ==
    LET viable == sorted({<<manhattan(mon_pos(ms[i]), agent_pos(a)), ms[i].level,
                            ms[i].r, ms[i].c>> : i \in viable_indices(a, ms)})
        known == remember(a, ms, env_turn)
    IN
    IF viable = <<>> THEN [action |-> "WAIT", arg |-> <<>>, known_monsters |-> known]
    ELSE
      LET target == <<viable[1][3], viable[1][4]>>
          tgt == monster_at(ms, target)
          next_face == predict_facing(tgt)
          dir_from_mon == CHOOSE d \in 1..4 :
                             direction_vector(d) = <<a.r - target[1], a.c - target[2]>>
          path == first_bfs_path(a, ms, safe_positions(ms, target, next_face), 1)
      IN
      IF manhattan(target, agent_pos(a)) = 1
      THEN IF dir_from_mon # next_face
           THEN [action |-> "ATTACK", arg |-> target, known_monsters |-> known]
           ELSE [action |-> "WAIT", arg |-> <<>>, known_monsters |-> known]
      ELSE IF path # <<>>
           THEN [action |-> "MOVE", arg |-> path[1], known_monsters |-> known]
           ELSE [action |-> "WAIT", arg |-> <<>>, known_monsters |-> known]

-----------------------------------------------------------------------------
(* BasicBFS.py: the perception-limited variant.  The agent also keeps      *)
(* known_free, the cells it has seen empty.  known_monsters maps a position *)
(* to the environment's own Monster object, so the model keeps the          *)
(* positions and reads level and facing from the collection.                *)

\* a slip: every adjacent in-bounds cell is recorded as free
perceive_BB_all_free(a, ms) ==
    LET around == {step_cell(agent_pos(a), all_directions[k]) : k \in 1..4}
        seen_cells == {n \in around : in_bounds(n[1], n[2])}
    IN [known_monsters |-> a.known_monsters \cup {n \in seen_cells : has_monster(ms, n)},
        known_free |-> a.known_free \cup seen_cells]

\* Agent.perceive: adjacent in-bounds cells go to known_monsters or known_free
perceive_BB(a, ms) ==
    LET around == {step_cell(agent_pos(a), all_directions[k]) : k \in 1..4}
        seen_cells == {n \in around : in_bounds(n[1], n[2])}
    IN [known_monsters |-> a.known_monsters \cup {n \in seen_cells : has_monster(ms, n)},
        known_free |-> a.known_free \cup {n \in seen_cells : ~has_monster(ms, n)}]

RECURSIVE bfs_BB_expand(_, _, _, _)
bfs_BB_expand(st, cur, k, blocked_all) ==
    IF k > Len(all_directions) THEN st
    ELSE
      LET d == all_directions[k]
          nxt == step_cell(cur.pos, d)
      IN
      IF ~in_bounds(nxt[1], nxt[2]) THEN bfs_BB_expand(st, cur, k + 1, blocked_all)
      ELSE IF nxt \in blocked_all \/ nxt \in st.parent
      THEN bfs_BB_expand(st, cur, k + 1, blocked_all)
      ELSE bfs_BB_expand(
             [q |-> Append(st.q, [pos |-> nxt, path |-> Append(cur.path, d)]),
              parent |-> st.parent \cup {nxt}],
             cur, k + 1, blocked_all)

RECURSIVE bfs_BB_loop(_, _, _)
\* each queued cell carries the moves that parent and move_dir give back for it
bfs_BB_loop(st, goal, blocked_all) ==
    IF st.q = <<>> THEN <<>>
    ELSE
      LET cur == Head(st.q)
          popped == [st EXCEPT !.q = Tail(@)]
      IN
      IF cur.pos = goal THEN cur.path
      ELSE bfs_BB_loop(bfs_BB_expand(popped, cur, 1, blocked_all), goal, blocked_all)

\* Agent.bfs(goal, blocked, avoid_danger = True, env)
bfs_BB(start, goal, blocked, ms) ==
    bfs_BB_loop([q |-> <<[pos |-> start, path |-> <<>>]>>, parent |-> {start}],
                goal, blocked \cup dangerous_positions(ms))

\* the cells around the target that the agent knows to be free and that are
\* not in the direction the target faces
safe_spots(known_free, tgt, facing) ==
    LET dirs == SelectSeq(all_directions,
                  LAMBDA d : step_cell(tgt, d) \in known_free /\ d # facing)
    IN [i \in 1..Len(dirs) |-> step_cell(tgt, dirs[i])]

RECURSIVE first_path_BB(_, _, _, _, _)
first_path_BB(a, known, ms, spots, i) ==
    IF i > Len(spots) THEN <<>>
    ELSE LET path == bfs_BB(agent_pos(a), spots[i], known, ms)
         IN IF path # <<>> THEN path ELSE first_path_BB(a, known, ms, spots, i + 1)

\* known free cells with an in-bounds neighbour that is neither known free
\* nor a known monster
frontier_cells(known_free, known) ==
    {cell \in known_free :
        \E k \in 1..4 :
           LET nbr == step_cell(cell, all_directions[k])
           IN in_bounds(nbr[1], nbr[2]) /\ nbr \notin known_free /\ nbr \notin known}

\* frontiers.sort(key = distance) is stable and known_free is a set: the goal
\* is one of the frontier cells nearest to the agent, which one is left to
\* the set's iteration order
nearest_frontiers(a, known_free, known) ==
    {cell \in frontier_cells(known_free, known) :
        \A other \in frontier_cells(known_free, known) :
           manhattan(cell, agent_pos(a)) <= manhattan(other, agent_pos(a))}

\* the exploration branch of plan_action, towards the frontier cell `goal`
explore(a, known, ms, goal) ==
    LET path == bfs_BB(agent_pos(a), goal, known, ms)
    IN IF path # <<>> /\ step_cell(agent_pos(a), path[1]) \notin dangerous_positions(ms)
       THEN [action |-> "MOVE", arg |-> path[1]]
       ELSE WAIT

\* the hunting branch of plan_action: an intent, or "NONE" to go on exploring
hunt(a, known, known_free, ms) ==
    LET choices == sorted({<<manhattan(pos, agent_pos(a)), -monster_at(ms, pos).level,
                             pos[1], pos[2]>> :
                           pos \in {k \in known : monster_at(ms, k).level <= a.level}})
        tgt == <<choices[1][3], choices[1][4]>>
        path == first_path_BB(a, known, ms,
                              safe_spots(known_free, tgt, monster_at(ms, tgt).facing), 1)
    IN
    IF choices = <<>> THEN [action |-> "NONE", arg |-> <<>>]
    ELSE IF manhattan(tgt, agent_pos(a)) = 1 THEN [action |-> "ATTACK", arg |-> tgt]
    ELSE IF path = <<>> THEN [action |-> "NONE", arg |-> <<>>]
    ELSE IF step_cell(agent_pos(a), path[1]) \in dangerous_positions(ms) THEN WAIT
    ELSE [action |-> "MOVE", arg |-> path[1]]

\* the frontier cells plan_action may explore towards; <<-1, -1>> when there is none
frontier_goals(a, ms) ==
    LET p == perceive_BB(a, ms)
        near == nearest_frontiers(a, p.known_free, p.known_monsters)
    IN IF near = {} THEN {<<-1, -1>>} ELSE near

\* BasicBFS.py plan_action, exploring towards `goal` if it comes to that
plan_action_BB(a, ms, goal) ==
    LET p == perceive_BB(a, ms)
        hunted == hunt(a, p.known_monsters, p.known_free, ms)
        intent == IF hunted.action # "NONE" THEN hunted
                  ELSE IF goal \in frontier_cells(p.known_free, p.known_monsters)
                  THEN explore(a, p.known_monsters, ms, goal)
                  ELSE WAIT
    IN [action |-> intent.action, arg |-> intent.arg,
        known_monsters |-> p.known_monsters, known_free |-> p.known_free]

-----------------------------------------------------------------------------
(* Agent.execute: the intent applied to the agent and the monster collection. *)
(* `failed` tells that the "else: alive = False" branch of ATTACK was taken.  *)

\* a slip: a move along a row goes two cells
moved_far(a, direction) ==
    [a EXCEPT !.r = @ + direction_vector(direction)[1],
              !.c = @ + 2 * direction_vector(direction)[2]]

moved(a, direction) ==
    [a EXCEPT !.r = @ + direction_vector(direction)[1],
              !.c = @ + direction_vector(direction)[2]]

\* a slip: a kill that does not raise the level
won_no_level(a) == [a EXCEPT !.kills = @ + 1]

won(a) == [a EXCEPT !.kills = @ + 1, !.level = @ + 1]

\* a slip: the level test is strict, so an attack on an equal level fails
execute_AStar_strict(a, ms, intent) ==
    LET planned == [a EXCEPT !.known_monsters = intent.known_monsters] IN
    CASE intent.action = "MOVE" ->
           [agent |-> moved(planned, intent.arg), monsters |-> ms, failed |-> FALSE]
      [] intent.action = "ATTACK" ->
           IF has_monster(ms, intent.arg) /\ a.level > monster_at(ms, intent.arg).level
           THEN [agent |-> won(planned), monsters |-> pop_monster(ms, intent.arg),
                 failed |-> FALSE]
           ELSE [agent |-> [planned EXCEPT !.alive = FALSE],
                 monsters |-> pop_monster(ms, intent.arg), failed |-> TRUE]
      [] OTHER -> [agent |-> planned, monsters |-> ms, failed |-> FALSE]

\* AStar1.py and Astar+Manhatin.py: env.monsters.pop(arg, None), then the level test
execute_AStar(a, ms, intent) ==
    LET planned == [a EXCEPT !.known_monsters = intent.known_monsters] IN
    CASE intent.action = "MOVE" ->
           [agent |-> moved(planned, intent.arg), monsters |-> ms, failed |-> FALSE]
      [] intent.action = "ATTACK" ->
           IF has_monster(ms, intent.arg) /\ a.level >= monster_at(ms, intent.arg).level
           THEN [agent |-> won(planned), monsters |-> pop_monster(ms, intent.arg),
                 failed |-> FALSE]
           ELSE [agent |-> [planned EXCEPT !.alive = FALSE],
                 monsters |-> pop_monster(ms, intent.arg), failed |-> TRUE]
      [] OTHER -> [agent |-> planned, monsters |-> ms, failed |-> FALSE]

\* SimpleBFS.py: the monster is looked up first and popped after the level test;
\* a target that is not in the collection changes nothing
execute_SB(a, ms, intent) ==
    LET planned == [a EXCEPT !.known_monsters = intent.known_monsters] IN
    CASE intent.action = "MOVE" ->
           [agent |-> moved(planned, intent.arg), monsters |-> ms, failed |-> FALSE]
      [] intent.action = "ATTACK" ->
           IF ~has_monster(ms, intent.arg)
           THEN [agent |-> planned, monsters |-> ms, failed |-> FALSE]
           ELSE IF a.level >= monster_at(ms, intent.arg).level
           THEN [agent |-> won(planned), monsters |-> pop_monster(ms, intent.arg),
                 failed |-> FALSE]
           ELSE [agent |-> [planned EXCEPT !.alive = FALSE],
                 monsters |-> pop_monster(ms, intent.arg), failed |-> TRUE]
      [] OTHER -> [agent |-> planned, monsters |-> ms, failed |-> FALSE]

\* monster_hunt.py: env.monsters.pop(arg) of a planned target, then the level test
execute_MH(a, ms, intent) ==
    LET planned == [a EXCEPT !.known_monsters = intent.known_monsters] IN
    CASE intent.action = "MOVE" ->
           [agent |-> moved(planned, intent.arg), monsters |-> ms, failed |-> FALSE]
      [] intent.action = "ATTACK" ->
           IF a.level >= monster_at(ms, intent.arg).level
           THEN [agent |-> won(planned), monsters |-> pop_monster(ms, intent.arg),
                 failed |-> FALSE]
           ELSE [agent |-> [planned EXCEPT !.alive = FALSE],
                 monsters |-> pop_monster(ms, intent.arg), failed |-> TRUE]
      [] OTHER -> [agent |-> planned, monsters |-> ms, failed |-> FALSE]

\* BasicBFS.py: a kill also drops the target from known_monsters
execute_BB(a, ms, intent) ==
    LET planned == [a EXCEPT !.known_monsters = intent.known_monsters,
                             !.known_free = intent.known_free] IN
    CASE intent.action = "MOVE" ->
           [agent |-> moved(planned, intent.arg), monsters |-> ms, failed |-> FALSE]
      [] intent.action = "ATTACK" ->
           IF has_monster(ms, intent.arg) /\ a.level >= monster_at(ms, intent.arg).level
           THEN [agent |-> [won(planned) EXCEPT !.known_monsters = @ \ {intent.arg}],
                 monsters |-> pop_monster(ms, intent.arg), failed |-> FALSE]
           ELSE [agent |-> [planned EXCEPT !.alive = FALSE],
                 monsters |-> pop_monster(ms, intent.arg), failed |-> TRUE]
      [] OTHER -> [agent |-> planned, monsters |-> ms, failed |-> FALSE]

-----------------------------------------------------------------------------
(* Environment *)

\* "for monster in self.monsters.values(): monster.rotate_if_needed()"
rotate_all(ms) == [i \in 1..Len(ms) |-> rotate_if_needed(ms[i])]

\* the end-of-step scan: some monster's cell ahead is the agent's cell
facing_agent(a, ms) == \E i \in 1..Len(ms) : ahead(ms[i]) = agent_pos(a)

\* a slip: the scan sets the flag both ways
lethality_rescan(a, ms) == [a EXCEPT !.alive = ~facing_agent(a, ms)]

\* AStar1.py, Astar+Manhatin.py, SimpleBFS.py: the scan runs only if the agent is alive
lethality(a, ms) ==
    IF a.alive /\ facing_agent(a, ms) THEN [a EXCEPT !.alive = FALSE] ELSE a

\* monster_hunt.py: the scan always runs
lethality_MH(a, ms) ==
    IF facing_agent(a, ms) THEN [a EXCEPT !.alive = FALSE] ELSE a

min_level(ms) == CHOOSE l \in {ms[i].level : i \in 1..Len(ms)} :
                    \A i \in 1..Len(ms) : l <= ms[i].level

\* a slip: every monster that outranks the agent is brought down
ensure_weaker_all(a, ms) ==
    IF ms = <<>> THEN ms
    ELSE IF min_level(ms) > a.level
    THEN [i \in 1..Len(ms) |-> [ms[i] EXCEPT !.level = IF a.level > 1 THEN a.level ELSE 1]]
    ELSE ms

\* monster_hunt.py Environment.ensure_weaker_monster: min() takes the first
\* monster of the least level in the collection's order
ensure_weaker_monster(a, ms) ==
    IF ms = <<>> THEN ms
    ELSE IF min_level(ms) > a.level
    THEN LET weakest == CHOOSE i \in 1..Len(ms) :
                           /\ ms[i].level = min_level(ms)
                           /\ \A j \in 1..(i - 1) : ms[j].level # min_level(ms)
         IN [ms EXCEPT ![weakest].level = IF a.level > 1 THEN a.level ELSE 1]
    ELSE ms

\* what step() records of itself: the state it started from, the monsters as
\* the planner saw them (after rotation), the intent and the failed-attack flag
step_record(a, seen, intent, done) ==
    [action |-> intent.action, arg |-> intent.arg,
     alive0 |-> a.alive, pos0 |-> agent_pos(a), level0 |-> a.level, kills0 |-> a.kills,
     seen |-> seen, after |-> done.monsters, failed |-> done.failed]

\* a slip: lethality resolved before the agent acts
step_AStar1_scan_first(a, ms) ==
    LET seen == rotate_all(ms)
        scanned == lethality(a, seen)
        intent == plan_action_AStar1(scanned, seen)
        done == execute_AStar(scanned, seen, intent)
    IN [agent |-> done.agent, monsters |-> done.monsters,
        last |-> step_record(a, seen, intent, done)]

\* Environment.step of AStar1.py
step_AStar1(a, ms) ==
    LET after_execute(seen, intent, done) ==
            [agent |-> lethality(done.agent, done.monsters), monsters |-> done.monsters,
             last |-> step_record(a, seen, intent, done)]
        after_plan(seen, intent) == after_execute(seen, intent, execute_AStar(a, seen, intent))
        after_rotate(seen) == after_plan(seen, plan_action_AStar1(a, seen))
    IN after_rotate(rotate_all(ms))

\* Environment.step of Astar+Manhatin.py
step_AM(a, ms) ==
    LET after_execute(seen, intent, done) ==
            [agent |-> lethality(done.agent, done.monsters), monsters |-> done.monsters,
             last |-> step_record(a, seen, intent, done)]
        after_plan(seen, intent) == after_execute(seen, intent, execute_AStar(a, seen, intent))
        after_rotate(seen) == after_plan(seen, plan_action_AM(a, seen))
    IN after_rotate(rotate_all(ms))

\* Environment.step of SimpleBFS.py
step_SB(a, ms) ==
    LET after_execute(seen, intent, done) ==
            [agent |-> lethality(done.agent, done.monsters), monsters |-> done.monsters,
             last |-> step_record(a, seen, intent, done)]
        after_plan(seen, intent) == after_execute(seen, intent, execute_SB(a, seen, intent))
        after_rotate(seen) == after_plan(seen, plan_action_SB(a, seen))
    IN after_rotate(rotate_all(ms))

\* Environment.step of BasicBFS.py
step_BB(a, ms, goal) ==
    LET after_execute(seen, intent, done) ==
            [agent |-> lethality(done.agent, done.monsters), monsters |-> done.monsters,
             last |-> step_record(a, seen, intent, done)]
        after_plan(seen, intent) == after_execute(seen, intent, execute_BB(a, seen, intent))
        after_rotate(seen) == after_plan(seen, plan_action_BB(a, seen, goal))
    IN after_rotate(rotate_all(ms))

\* Environment.step of monster_hunt.py; env_turn is the incremented turn
step_MH(a, ms, env_turn) ==
    LET after_scan(seen, intent, done, scanned) ==
            [agent |-> scanned, monsters |-> ensure_weaker_monster(scanned, done.monsters),
             last |-> step_record(a, seen, intent, done)]
        after_execute(seen, intent, done) ==
            after_scan(seen, intent, done, lethality_MH(done.agent, done.monsters))
        after_plan(seen, intent) == after_execute(seen, intent, execute_MH(a, seen, intent))
        after_rotate(seen) == after_plan(seen, plan_action_MH(a, seen, env_turn))
    IN after_rotate(rotate_all(ms))

-----------------------------------------------------------------------------
(* Construction *)

MaxLvl == 2

Facings == {NORTH, SOUTH, WEST, EAST}

\* Agent.__init__
new_agent(pos) ==
    [r |-> pos[1], c |-> pos[2], level |-> 1, kills |-> 0, alive |-> TRUE,
     known_monsters |-> {}]

\* the placement loop with Monster.__init__: n monsters on distinct cells other
\* than the agent's, any facing, counter 0, levels drawn from Levels
placements(apos, n, Levels) ==
    {ms \in [1..n -> [r : 0..(Rows - 1), c : 0..(Cols - 1), level : Levels,
                      facing : Facings, turns_seen : {0}]] :
        /\ \A i \in 1..n : mon_pos(ms[i]) # apos
        /\ \A i, j \in 1..n : i # j => mon_pos(ms[i]) # mon_pos(ms[j])}

no_step ==
    [action |-> "NONE", arg |-> <<>>, alive0 |-> TRUE, pos0 |-> <<0, 0>>, level0 |-> 1,
     kills0 |-> 0, seen |-> <<>>, after |-> <<>>, failed |-> FALSE]

AscendingVariants == {"AStar1", "AstarManhatin", "SimpleBFS"}

\* a slip: the levels start at 2
InitAscending_from_two(v) ==
    /\ variant = v
    /\ \E apos \in Cells, n \in 1..NMonsters :
         /\ agent = new_agent(apos)
         /\ \E ms \in placements(apos, n, 2..(n + 1)) :
              /\ \A i \in 1..n : ms[i].level = i + 1
              /\ monsters = ms
    /\ turn = 0
    /\ last = no_step

\* Environment.__init__ of the ascending-level variants: the i-th monster has level i
InitAscending(v) ==
    /\ variant = v
    /\ \E apos \in Cells, n \in 1..NMonsters :
         /\ agent = new_agent(apos)
         /\ \E ms \in placements(apos, n, 1..n) :
              /\ \A i \in 1..n : ms[i].level = i
              /\ monsters = ms
    /\ turn = 0
    /\ last = no_step

\* Environment.__init__ of monster_hunt.py: random levels, then ensure_weaker_monster
InitMH ==
    /\ variant = "monster_hunt"
    /\ \E apos \in Cells, n \in 1..NMonsters :
         /\ agent = new_agent(apos)
         /\ \E ms \in placements(apos, n, 1..MaxLvl) :
              monsters = ensure_weaker_monster(new_agent(apos), ms)
    /\ turn = 0
    /\ last = no_step

\* Environment.__init__ of BasicBFS.py: ascending levels, the agent knows its own cell
InitBB ==
    /\ variant = "BasicBFS"
    /\ \E apos \in Cells, n \in 1..NMonsters :
         /\ agent = [r |-> apos[1], c |-> apos[2], level |-> 1, kills |-> 0, alive |-> TRUE,
                     known_monsters |-> {}, known_free |-> {apos}]
         /\ \E ms \in placements(apos, n, 1..n) :
              /\ \A i \in 1..n : ms[i].level = i
              /\ monsters = ms
    /\ turn = 0
    /\ last = no_step

Init == (\E v \in AscendingVariants : InitAscending(v)) \/ InitMH \/ InitBB

-----------------------------------------------------------------------------
(* One action per variant's Environment.step() *)

Apply(result) ==
    /\ agent' = result.agent
    /\ monsters' = result.monsters
    /\ last' = result.last
    /\ turn' = turn + 1
    /\ UNCHANGED variant

StepAStar1 == variant = "AStar1" /\ turn < MaxTurn /\ Apply(step_AStar1(agent, monsters))

StepAM == variant = "AstarManhatin" /\ turn < MaxTurn /\ Apply(step_AM(agent, monsters))

StepSB == variant = "SimpleBFS" /\ turn < MaxTurn /\ Apply(step_SB(agent, monsters))

StepMH == variant = "monster_hunt" /\ turn < MaxTurn
          /\ Apply(step_MH(agent, monsters, turn + 1))

StepBB == /\ variant = "BasicBFS"
          /\ turn < MaxTurn
          /\ \E goal \in frontier_goals(agent, rotate_all(monsters)) :
                Apply(step_BB(agent, monsters, goal))

Next == StepAStar1 \/ StepAM \/ StepSB \/ StepMH \/ StepBB

Spec == Init /\ [][Next]_vars

\* the three current-facing variants alone
InitCurrent == \E v \in AscendingVariants : InitAscending(v)

NextCurrent == StepAStar1 \/ StepAM \/ StepSB

SpecCurrent == InitCurrent /\ [][NextCurrent]_vars

\* the lookahead variant alone
NextMH == StepMH

SpecMH == InitMH /\ [][NextMH]_vars

-----------------------------------------------------------------------------
(* A monster on its own: rotate_if_needed called again and again on the one *)
(* monster of an environment.  `last` keeps the facing it was built with,   *)
(* the number of calls and the monster as it was before the latest call.    *)

MaxCalls == 8

InitRotate ==
    /\ variant = "AStar1"
    /\ \E apos \in Cells :
         /\ agent = new_agent(apos)
         /\ \E ms \in placements(apos, 1, {1}) :
              /\ monsters = ms
              /\ last = [action |-> "NONE", calls |-> 0, facing0 |-> ms[1].facing,
                         before |-> ms[1]]
    /\ turn = 0

RotateCall ==
    /\ last.calls < MaxCalls
    /\ monsters' = <<rotate_if_needed(monsters[1])>>
    /\ last' = [action |-> "ROTATE", calls |-> last.calls + 1, facing0 |-> last.facing0,
                before |-> monsters[1]]
    /\ UNCHANGED <<variant, agent, turn>>

NextRotate == RotateCall

SpecRotate == InitRotate /\ [][NextRotate]_vars

-----------------------------------------------------------------------------
(* The search on its own: one call of the variant's search routine from the *)
(* agent's cell of a freshly built environment, to any goal in or just      *)
(* outside the grid.  `last` keeps the goal and the path returned.          *)

SearchVariants == AscendingVariants \cup {"monster_hunt"}

GoalCells == {<<r, c>> : r \in -1..Rows, c \in -1..Cols}

InitSearch == \E v \in SearchVariants : InitAscending(v)

search_call(v, start, ms, goal) ==
    IF v = "monster_hunt" THEN bfs(start, ms, goal) ELSE search(v, start, ms, goal)

SearchCall ==
    /\ last.action = "NONE"
    /\ \E goal \in GoalCells :
         last' = [action |-> "SEARCH", goal |-> goal,
                  path |-> search_call(variant, agent_pos(agent), monsters, goal)]
    /\ UNCHANGED <<variant, agent, monsters, turn>>

NextSearch == SearchCall

SpecSearch == InitSearch /\ [][NextSearch]_vars

-----------------------------------------------------------------------------
(* Properties *)

stepped == last.action \in {"WAIT", "MOVE", "ATTACK"}

\* the monsters the planner saw that stood next to the agent
adjacent_seen == {i \in 1..Len(last.seen) : manhattan(mon_pos(last.seen[i]), last.pos0) = 1}

\* C1 (viability): an ATTACK is issued only against a monster that is in the
\* collection at planning time and whose level does not exceed the agent's
\* level at that moment; an agent whose adjacent monsters are all of strictly
\* higher level does not ATTACK.
C1_Viability ==
    /\ last.action = "ATTACK" =>
         /\ last.arg \in monster_keys(last.seen)
         /\ \A i \in 1..Len(last.seen) :
              mon_pos(last.seen[i]) = last.arg => last.seen[i].level <= last.level0
    /\ (stepped /\ \A i \in adjacent_seen : last.seen[i].level > last.level0)
         => last.action \in {"WAIT", "MOVE"}

\* an ATTACK issued while a stronger monster also stood next to the agent
C1_Witness ==
    /\ last.action = "ATTACK"
    /\ \E i \in adjacent_seen : last.seen[i].level > last.level0

\* the cells directly ahead of the monsters now in the collection
cells_ahead == {ahead(monsters[i]) : i \in 1..Len(monsters)}

\* C2 (current-facing variants): a step whose intent is MOVE ends with the
\* agent on a cell that no monster of the collection faces (facings after
\* this step's rotation), so a MOVE of a live agent leaves it alive.
C2_MoveNotLethal ==
    last.action = "MOVE" =>
        /\ agent_pos(agent) \notin cells_ahead
        /\ last.alive0 => agent.alive

\* a live agent moved in a step in which the monsters turned, away from or
\* around a cell that a monster faces next to where it stood
C2_Witness ==
    /\ last.action = "MOVE"
    /\ last.alive0
    /\ turn % 2 = 0
    /\ \E cell \in cells_ahead : manhattan(cell, last.pos0) = 1

\* C3 (monster_hunt.py): the same statement for the lookahead variant.
C3_MoveNotLethalMH ==
    last.action = "MOVE" =>
        /\ agent_pos(agent) \notin cells_ahead
        /\ last.alive0 => agent.alive

\* C4 (occupancy): the monsters stand on pairwise distinct cells and the
\* agent's cell holds no monster, initially and after every step.
C4_Occupancy ==
    /\ \A i, j \in 1..Len(monsters) : i # j => mon_pos(monsters[i]) # mon_pos(monsters[j])
    /\ agent_pos(agent) \notin monster_keys(monsters)

\* the agent has moved to a cell next to a monster
C4_Witness ==
    /\ last.action = "MOVE"
    /\ Len(monsters) = NMonsters
    /\ \E i \in 1..Len(monsters) : manhattan(mon_pos(monsters[i]), agent_pos(agent)) = 1

\* C5 (level): a step raises the agent's level by exactly 1 if it performed a
\* successful ATTACK and leaves it unchanged otherwise; it never lowers it.
C5_Level ==
    [][agent'.level = agent.level +
         (IF last'.action = "ATTACK" /\ ~last'.failed THEN 1 ELSE 0)]_vars

\* a second kill has raised the level to 3
C5_Witness == last.action = "ATTACK" /\ ~last.failed /\ agent.level = 3 /\ agent.kills = 2

\* C7 (lethality): the step increments the turn, then turns every monster,
\* then the agent acts, then lethality is resolved: every monster left has
\* been turned as often as the turn counter tells, and a step of a live agent
\* without a failed attack ends with the agent dead exactly if a monster left
\* in the collection faces the cell the agent ends on.
C7_Lethality ==
    stepped =>
        /\ \A i \in 1..Len(monsters) : monsters[i].turns_seen = turn
        /\ (last.alive0 /\ ~last.failed) =>
             (agent.alive = FALSE <=> agent_pos(agent) \in cells_ahead)

\* the agent moved into the cell a monster turned to face in this very step
C7_Witness ==
    /\ last.action = "MOVE"
    /\ last.alive0
    /\ ~agent.alive
    /\ turn % 2 = 0

\* C8 (attack): an ATTACK on a monster of at most the agent's level removes
\* that monster before lethality is resolved, raises kills and level by 1
\* each, leaves the agent where it stood and every other monster in place.
C8_Attack ==
    (last.action = "ATTACK" /\
       \E i \in 1..Len(last.seen) :
          mon_pos(last.seen[i]) = last.arg /\ last.seen[i].level <= last.level0)
    =>
        /\ last.arg \notin monster_keys(monsters)
        /\ agent.kills = last.kills0 + 1
        /\ agent.level = last.level0 + 1
        /\ agent_pos(agent) = last.pos0
        /\ Len(monsters) = Len(last.seen) - 1
        /\ \A i \in 1..Len(last.seen) :
             mon_pos(last.seen[i]) # last.arg =>
                \E j \in 1..Len(monsters) :
                   /\ mon_pos(monsters[j]) = mon_pos(last.seen[i])
                   /\ monsters[j].facing = last.seen[i].facing
        /\ (last.alive0 /\ agent_pos(agent) \notin cells_ahead) => agent.alive

\* the agent attacked, in a step in which the monsters turned, a monster
\* that was facing it, and lives
C8_Witness ==
    /\ last.action = "ATTACK"
    /\ turn % 2 = 0
    /\ \E i \in 1..Len(last.seen) :
          /\ mon_pos(last.seen[i]) = last.arg
          /\ ahead(last.seen[i]) = last.pos0
    /\ agent.alive

\* the cycle N -> E -> S -> W -> N
clockwise(f) ==
    CASE f = NORTH -> EAST
      [] f = EAST -> SOUTH
      [] f = SOUTH -> WEST
      [] f = WEST -> NORTH

RECURSIVE advance(_, _)
advance(f, k) == IF k = 0 THEN f ELSE advance(clockwise(f), k - 1)

\* C6 (rotation): every call of rotate_if_needed adds 1 to the counter; the
\* facing moves one step clockwise on the calls that make the counter even
\* and stays on the others, so after k calls it is the facing the monster
\* was built with advanced floor(k/2) steps.
C6_Rotation ==
    /\ monsters[1].turns_seen = last.calls
    /\ monsters[1].facing = advance(last.facing0, last.calls \div 2)
    /\ last.action = "ROTATE" =>
         /\ monsters[1].turns_seen = last.before.turns_seen + 1
         /\ monsters[1].facing =
              IF monsters[1].turns_seen % 2 = 0 THEN clockwise(last.before.facing)
              ELSE last.before.facing

\* six calls have taken a monster built facing North to West
C6_Witness ==
    /\ last.action = "ROTATE"
    /\ last.calls = 6
    /\ last.facing0 = NORTH
    /\ monsters[1].facing = WEST

RECURSIVE layers(_, _, _, _, _)
\* breadth-first layers: the number of moves from the frontier to the goal
\* through the cells of `free`, -1 if the goal is never met
layers(frontier, seen, d, goal, free) ==
    IF goal \in frontier THEN d
    ELSE IF frontier = {} THEN -1
    ELSE LET nxt == {n \in free \ seen : \E p \in frontier : manhattan(p, n) = 1}
         IN layers(nxt, seen \cup nxt, d + 1, goal, free)

\* the 4-connected distance from the agent's cell to the goal over the
\* in-bounds cells that hold no monster and that no monster faces
true_distance(goal) ==
    layers({agent_pos(agent)}, {agent_pos(agent)}, 0, goal,
           Cells \ ({mon_pos(monsters[i]) : i \in 1..Len(monsters)} \cup cells_ahead))

\* C9 (search): for a goal cell other than the start, the path returned by
\* astar (AStar1.py, Astar+Manhatin.py) and find_path (SimpleBFS.py) is as
\* long as the true shortest distance, and empty exactly if the goal cannot
\* be reached.
C9_SearchShortest ==
    (/\ last.action = "SEARCH"
     /\ variant \in AscendingVariants
     /\ last.goal \in Cells
     /\ last.goal # agent_pos(agent))
    =>
        /\ Len(last.path) = (IF true_distance(last.goal) = -1 THEN 0
                             ELSE true_distance(last.goal))
        /\ last.path = <<>> <=> true_distance(last.goal) = -1

\* a path found that is longer than the Manhattan distance: a detour
C9_Witness ==
    /\ last.action = "SEARCH"
    /\ variant \in AscendingVariants
    /\ last.goal \in Cells
    /\ Len(last.path) > manhattan(agent_pos(agent), last.goal)

\* C10 (invalid goal): a search for a goal outside the grid or on a monster's
\* cell ends and returns the empty path.
C10_InvalidGoal ==
    (/\ last.action = "SEARCH"
     /\ (last.goal \notin Cells \/ last.goal \in monster_keys(monsters)))
    => last.path = <<>>

\* a goal just outside the grid, one step from the agent
C10_Witness ==
    /\ last.action = "SEARCH"
    /\ last.goal \notin Cells
    /\ manhattan(agent_pos(agent), last.goal) = 1
    /\ last.path = <<>>

-----------------------------------------------------------------------------
(* Environment.__init__ step by step: the agent is built, then every monster *)
(* is placed by the loop that draws cells until one is neither the agent's   *)
(* nor taken.  A draw is one action; turn stays -1 until self.turn = 0.      *)

BuildRows == 2
BuildCols == 2

BuildCells == {<<r, c>> : r \in 0..(BuildRows - 1), c \in 0..(BuildCols - 1)}

\* the free cells a monster can go to: every cell but the agent's
free_cells == BuildRows * BuildCols - 1

placing(n, cell) == [action |-> "PLACING", n_monsters |-> n, drawn |-> cell]

InitBuild ==
    /\ variant = "AStar1"
    /\ \E apos \in BuildCells : agent = new_agent(apos)
    /\ monsters = <<>>
    /\ turn = -1
    /\ \E n \in 1..(BuildRows * BuildCols) : last = placing(n, <<-1, -1>>)

\* one pass of `while True`: the drawn cell is taken if it is neither the
\* agent's nor a monster's, and then the monster is built with the next level
DrawCell(cell) ==
    /\ last.action = "PLACING"
    /\ Len(monsters) < last.n_monsters
    /\ last' = placing(last.n_monsters, cell)
    /\ IF cell # agent_pos(agent) /\ cell \notin monster_keys(monsters)
       THEN \E f \in Facings :
              monsters' = Append(monsters, [r |-> cell[1], c |-> cell[2],
                                            level |-> Len(monsters) + 1,
                                            facing |-> f, turns_seen |-> 0])
       ELSE UNCHANGED monsters
    /\ UNCHANGED <<variant, agent, turn>>

\* the for loop is over: self.turn = 0
FinishBuild ==
    /\ last.action = "PLACING"
    /\ Len(monsters) = last.n_monsters
    /\ turn' = 0
    /\ last' = [last EXCEPT !.action = "BUILT"]
    /\ UNCHANGED <<variant, agent, monsters>>

NextBuild == (\E cell \in BuildCells : DrawCell(cell)) \/ FinishBuild

\* the constructor runs on, and the generator draws every cell again and again
SpecBuild ==
    /\ InitBuild
    /\ [][NextBuild]_vars
    /\ WF_vars(FinishBuild)
    /\ \A cell \in BuildCells : SF_vars(DrawCell(cell))

\* C11 (too many monsters): a construction asked for more monsters than there
\* are free cells comes to an end (by reporting a configuration error, the
\* only way it could) instead of drawing cells forever.
C11_TooManyMonsters ==
    (last.action = "PLACING" /\ last.n_monsters > free_cells) ~> (last.action # "PLACING")

\* what the constructor does when the monsters fit: it ends, built
BuildEnds ==
    (last.action = "PLACING" /\ last.n_monsters <= free_cells) ~> (last.action = "BUILT")

-----------------------------------------------------------------------------
(* Two copies of one environment stepped side by side: the first copy is in *)
(* agent, monsters and turn, the second in the record `last`.  BasicBFS.py  *)
(* is left out: its frontier choice follows the iteration order of a set,   *)
(* which the model leaves open.                                             *)

PairVariants == AscendingVariants \cup {"monster_hunt"}

\* a slip: a step that may turn the monsters once more before it starts
outcomes_redrawn(v, a, ms, t) ==
    CASE v = "AStar1" -> {step_AStar1(a, ms)}
      [] v = "AstarManhatin" -> {step_AM(a, ms)}
      [] v = "SimpleBFS" -> {step_SB(a, ms)}
      [] v = "monster_hunt" -> {step_MH(a, m, t + 1) : m \in {ms, rotate_all(ms)}}

\* what one call of step() can leave behind, from the state (a, ms, t)
outcomes(v, a, ms, t) ==
    CASE v = "AStar1" -> {step_AStar1(a, ms)}
      [] v = "AstarManhatin" -> {step_AM(a, ms)}
      [] v = "SimpleBFS" -> {step_SB(a, ms)}
      [] v = "monster_hunt" -> {step_MH(a, ms, t + 1)}

second_copy(a, ms, t, did) ==
    [action |-> "PAIR", agent2 |-> a, monsters2 |-> ms, turn2 |-> t, did |-> did]

\* both copies are built alike (the same seed)
InitPair ==
    /\ variant \in PairVariants
    /\ \E apos \in Cells, n \in 1..NMonsters :
         /\ agent = new_agent(apos)
         /\ IF variant = "monster_hunt"
            THEN \E ms \in placements(apos, n, 1..MaxLvl) :
                    monsters = ensure_weaker_monster(new_agent(apos), ms)
            ELSE \E ms \in placements(apos, n, 1..n) :
                    /\ \A i \in 1..n : ms[i].level = i
                    /\ monsters = ms
    /\ turn = 0
    /\ last = second_copy(agent, monsters, 0, "NONE")

\* step() is called on each copy
StepPair ==
    /\ turn < MaxTurn
    /\ \E of_copy \in
            {[copy \in {1, 2} |->
                outcomes(variant,
                         IF copy = 1 THEN agent ELSE last.agent2,
                         IF copy = 1 THEN monsters ELSE last.monsters2,
                         IF copy = 1 THEN turn ELSE last.turn2)]} :
       \E first \in of_copy[1], second \in of_copy[2] :
         /\ agent' = first.agent
         /\ monsters' = first.monsters
         /\ turn' = turn + 1
         /\ last' = second_copy(second.agent, second.monsters, last.turn2 + 1,
                                first.last.action)
    /\ UNCHANGED variant

NextPair == StepPair

SpecPair == InitPair /\ [][NextPair]_vars

-----------------------------------------------------------------------------
(* plan_action on its own: called once on an environment given directly, an *)
(* agent of any level among monsters of any levels.  (In an environment     *)
(* built by Environment.__init__ of AStar1.py, Astar+Manhatin.py or         *)
(* SimpleBFS.py the levels are 1..n and the kills go 1, 2, 3, ..., so only  *)
(* one monster is viable at a time; several viable monsters are met only    *)
(* here.)                                                                   *)

no_plan == [action |-> "NONE", arg |-> <<>>]

\* plan_action of the variant v
plan_action_of(v, a, ms) ==
    CASE v = "AStar1" -> plan_action_AStar1(a, ms)
      [] v = "AstarManhatin" -> plan_action_AM(a, ms)
      [] v = "SimpleBFS" -> plan_action_SB(a, ms)

InitPlan ==
    /\ variant \in AscendingVariants
    /\ \E apos \in Cells, lvl \in 1..MaxLvl, n \in 1..NMonsters :
         /\ agent = [new_agent(apos) EXCEPT !.level = lvl, !.kills = lvl - 1]
         /\ monsters \in placements(apos, n, 1..MaxLvl)
    /\ turn = 0
    /\ last = no_plan

PlanCall ==
    /\ last.action = "NONE"
    /\ LET returned(planned) ==
               /\ last' = [action |-> planned.action, arg |-> planned.arg]
               /\ agent' = [agent EXCEPT !.known_monsters = planned.known_monsters]
       IN returned(plan_action_of(variant, agent, monsters))
    /\ UNCHANGED <<variant, monsters, turn>>

NextPlan == PlanCall

SpecPlan == InitPlan /\ [][NextPlan]_vars

plan_made == last.action \in {"WAIT", "MOVE", "ATTACK"}

\* the monsters the agent can defeat, and those of them next to it
viable_now == {i \in 1..Len(monsters) : monsters[i].level <= agent.level}

adjacent_viable ==
    {i \in viable_now : manhattan(mon_pos(monsters[i]), agent_pos(agent)) = 1}

\* monster i comes before monster j: nearer, or as near and of higher level
ranked_before(i, j) ==
    LET di == manhattan(mon_pos(monsters[i]), agent_pos(agent))
        dj == manhattan(mon_pos(monsters[j]), agent_pos(agent))
    IN di < dj \/ (di = dj /\ monsters[i].level > monsters[j].level)

\* the safe approach cells of monster i: in-bounds neighbours that hold no
\* monster and are not the cell it faces
approach_cells(i) ==
    {cell \in Cells :
        /\ manhattan(cell, mon_pos(monsters[i])) = 1
        /\ cell \notin monster_keys(monsters)
        /\ cell # ahead(monsters[i])}

\* the first steps of the paths the variant's search finds to those cells
approach_moves(i) ==
    {search(variant, agent_pos(agent), monsters, cell)[1] :
        cell \in {c \in approach_cells(i) :
                    search(variant, agent_pos(agent), monsters, c) # <<>>}}

\* C13 (ranking, AStar1.py and Astar+Manhatin.py): candidates are tried by
\* distance ascending, then level descending: with viable monsters next to
\* the agent the ATTACK goes to one of the highest level among them, and a
\* MOVE approaches a monster only if no monster ranked before it offers a move.
C13_Ranking ==
    (plan_made /\ variant \in {"AStar1", "AstarManhatin"}) =>
        /\ adjacent_viable # {} =>
             /\ last.action = "ATTACK"
             /\ \E i \in adjacent_viable :
                   /\ mon_pos(monsters[i]) = last.arg
                   /\ \A j \in adjacent_viable : monsters[j].level <= monsters[i].level
        /\ last.action = "MOVE" =>
             \E i \in viable_now :
                /\ last.arg \in approach_moves(i)
                /\ \A j \in viable_now : ranked_before(j, i) => approach_moves(j) = {}

\* two viable monsters of different levels stand next to the agent
C13_Witness ==
    /\ last.action = "ATTACK"
    /\ variant \in {"AStar1", "AstarManhatin"}
    /\ \E i, j \in adjacent_viable : monsters[i].level < monsters[j].level

exhausted == adjacent_viable = {} /\ \A i \in viable_now : approach_moves(i) = {}

\* C15 (fall-through, AStar1.py): plan_action returns WAIT only if no viable
\* monster is adjacent and no safe approach cell of any viable monster is
\* reachable by the search; otherwise it returns ATTACK, or a MOVE that is
\* the first step of a path to a safe approach cell of the best-ranked
\* monster that has one.
C15_FallThrough ==
    (plan_made /\ variant = "AStar1") =>
        /\ last.action = "WAIT" => exhausted
        /\ ~exhausted =>
             \/ last.action = "ATTACK" /\ adjacent_viable # {}
             \/ /\ last.action = "MOVE"
                /\ adjacent_viable = {}
                /\ \E i \in viable_now :
                      /\ last.arg \in approach_moves(i)
                      /\ \A j \in viable_now : ranked_before(j, i) => approach_moves(j) = {}

\* the best-ranked viable monster offers no move and the agent moves towards
\* the next one
C15_Witness ==
    /\ variant = "AStar1"
    /\ last.action = "MOVE"
    /\ \E i, j \in viable_now :
          /\ ranked_before(j, i)
          /\ approach_moves(j) = {}
          /\ last.arg \in approach_moves(i)

-----------------------------------------------------------------------------
(* monster_hunt.py's planner seen from outside, on the state step() planned *)
(* in: the agent stood on last.pos0 with level last.level0 among last.seen. *)

viable_seen == {i \in 1..Len(last.seen) : last.seen[i].level <= last.level0}

\* monster i would let the planner act: next to the agent, an attack that is
\* not refused (the monster will not face the agent next turn); further
\* away, a safe neighbour (not its predicted facing) that bfs finds a path to
yields_action(i) ==
    LET m == last.seen[i]
        next_face == predict_facing(m)
    IN IF manhattan(mon_pos(m), last.pos0) = 1
       THEN step_cell(mon_pos(m), next_face) # last.pos0
       ELSE \E cell \in Cells :
               /\ \E d \in Facings : d # next_face /\ cell = step_cell(mon_pos(m), d)
               /\ cell \notin monster_keys(last.seen)
               /\ bfs(last.pos0, last.seen, cell) # <<>>

\* C16 (fall-through, monster_hunt.py): when the best-ranked viable monster
\* yields no action the planner goes on to the next-ranked one, so it returns
\* WAIT only when no viable monster yields an ATTACK or a MOVE.
C16_FallThroughMH ==
    (stepped /\ last.action = "WAIT") => \A i \in viable_seen : ~yields_action(i)

-----------------------------------------------------------------------------
(* The main loop of AStar1.py run to its end: step() is called while the    *)
(* agent is alive and monsters are left.  The code reads the counters only  *)
(* through turns_seen % 2, so this specification keeps them modulo          *)
(* RotatePeriod; the runs are the same and the state space is finite.       *)

RotatePeriod == 2

RunMonsters == 3

wrapped(ms) == [i \in 1..Len(ms) |-> [ms[i] EXCEPT !.turns_seen = @ % RotatePeriod]]

\* __main__ before `env = Environment()`: nothing is built (turn = -1)
InitRun ==
    /\ variant = "AStar1"
    /\ agent = new_agent(<<0, 0>>)
    /\ monsters = <<>>
    /\ turn = -1
    /\ last = no_step

\* the start cells this specification follows: the corner opposite <<0, 0>>
\* (one cell of the random.randrange(R), random.randrange(C) of __init__, to
\* keep the runs few enough to follow to their end)
RunStarts == {<<Rows - 1, Cols - 1>>}

\* env = Environment(): the agent on a start cell, the i-th monster of level i
Construct ==
    /\ turn = -1
    /\ \E apos \in RunStarts, n \in 1..RunMonsters :
         /\ agent' = new_agent(apos)
         /\ \E ms \in placements(apos, n, 1..n) :
              /\ \A i \in 1..n : ms[i].level = i
              /\ monsters' = ms
    /\ turn' = 0
    /\ UNCHANGED <<variant, last>>

\* one pass of `while env.agent.alive and env.monsters: env.step()`
RunStep ==
    /\ turn >= 0
    /\ agent.alive
    /\ monsters # <<>>
    /\ LET stepped_to(result) ==
               /\ agent' = result.agent
               /\ monsters' = wrapped(result.monsters)
               /\ last' = result.last
       IN stepped_to(step_AStar1(agent, monsters))
    /\ turn' = (turn + 1) % RotatePeriod
    /\ UNCHANGED variant

NextRun == Construct \/ RunStep

\* the loop's condition holds and step() is called once more: the steps of
\* RunStep, told by the counter alone
LoopTurn ==
    /\ turn >= 0
    /\ agent.alive
    /\ monsters # <<>>
    /\ turn' = (turn + 1) % RotatePeriod

\* the steps of Construct, told by the counter alone
BuiltTurn == turn = -1 /\ turn' = 0

\* the program runs on: it builds the environment, and the loop goes on as
\* long as its condition holds
SpecRun ==
    /\ InitRun
    /\ [][NextRun]_vars
    /\ WF_turn(BuiltTurn)
    /\ WF_turn(LoopTurn)

game_over == turn >= 0 /\ (~agent.alive \/ monsters = <<>>)

\* C17 (termination, AStar1.py): every run of repeated step() calls reaches,
\* after finitely many steps, a state in which the agent is not alive or the
\* monster collection is empty.
C17_Termination == <>game_over

-----------------------------------------------------------------------------
(* The worked example: AStar1.py on a 5 x 5 grid with one level-1 monster.  *)
(* The specification follows the main loop from every placement of the      *)
(* agent and the monster; `last` also keeps whether the run began in the    *)
(* example's state and what it has done since.                              *)

ExampleCells == {<<r, c>> : r \in 0..(ExampleGrid.R - 1), c \in 0..(ExampleGrid.C - 1)}

\* one monster at (0,4), level 1, facing East, counter 0; the agent at (0,0)
example_start(a, ms) ==
    /\ agent_pos(a) = <<0, 0>>
    /\ ms = <<[r |-> 0, c |-> 4, level |-> 1, facing |-> EAST, turns_seen |-> 0]>>

\* the latest step, whether the run began as the example, its intents so far
\* and the distance between agent and target when the latest intent was made
run_record(step, example, intents, dist) ==
    [action |-> step.action, arg |-> step.arg, example |-> example,
     intents |-> intents, dist |-> dist]

InitExample ==
    /\ variant = "AStar1_example"
    /\ \E apos \in ExampleCells, mpos \in ExampleCells, f \in Facings :
         /\ mpos # apos
         /\ agent = new_agent(apos)
         /\ monsters = <<[r |-> mpos[1], c |-> mpos[2], level |-> 1, facing |-> f,
                          turns_seen |-> 0]>>
    /\ turn = 0
    /\ last = run_record(no_step, example_start(agent, monsters), <<>>, 0)

\* one pass of `while env.agent.alive and env.monsters: env.step()`
ExampleStep ==
    /\ variant = "AStar1_example"
    /\ agent.alive
    /\ monsters # <<>>
    /\ turn < MaxTurn
    /\ LET stepped_to(result) ==
               /\ agent' = result.agent
               /\ monsters' = result.monsters
               /\ last' = run_record(result.last, last.example,
                                     Append(last.intents, result.last.action),
                                     IF result.last.action = "ATTACK"
                                     THEN manhattan(result.last.arg, agent_pos(agent))
                                     ELSE 0)
       IN stepped_to(step_AStar1(agent, monsters))
    /\ turn' = turn + 1
    /\ UNCHANGED variant

NextExample == ExampleStep

\* the steps of ExampleStep, told by the counter alone
ExampleTurn ==
    /\ agent.alive
    /\ monsters # <<>>
    /\ turn < MaxTurn
    /\ turn' = turn + 1

\* the loop goes on as long as its condition holds
SpecExample == InitExample /\ [][NextExample]_vars /\ WF_turn(ExampleTurn)

example_won == agent.alive /\ agent.level = 2 /\ agent.kills = 1 /\ monsters = <<>>

\* C18 (example): from the example's state the steps are MOVEs only, then
\* one ATTACK made at Manhattan distance 1, and the run ends with the agent
\* alive, level 2, kills 1 and no monster left.
C18_Example ==
    /\ [](last.example =>
            /\ \A i \in 1..Len(last.intents) :
                  last.intents[i] = (IF i = Len(last.intents) /\ monsters = <<>>
                                     THEN "ATTACK" ELSE "MOVE")
            /\ last.action = "ATTACK" => last.dist = 1
            /\ monsters = <<>> => last.action = "ATTACK" /\ example_won)
    /\ (last.example ~> example_won)

\* the example's run after its attack, with moves before it
C18_Witness ==
    /\ last.example
    /\ last.action = "ATTACK"
    /\ Len(last.intents) > 1
    /\ example_won

-----------------------------------------------------------------------------
(* The alive flag over any sequence of step() calls.  The actions of Spec   *)
(* call step() whatever the flag says, so steps of a dead agent are there.  *)

\* C19 (liveness flag monotonicity): agent.alive starts true and no step()
\* call, before or after the game is over, takes it from false back to true.
C19_AliveMonotone == agent.alive /\ [][~agent.alive => ~agent'.alive]_vars

\* step() was called on a dead agent, which acted and stayed dead
C19_Witness ==
    /\ stepped
    /\ ~last.alive0
    /\ last.action \in {"MOVE", "ATTACK"}
    /\ ~agent.alive

-----------------------------------------------------------------------------
(* How the agent dies.  step_record keeps the flag of execute's             *)
(* "else: self.alive = False" branch and the liveness the step began with.  *)

\* the agent was alive when the latest step() began and is dead after it
died_now == stepped /\ last.alive0 /\ ~agent.alive

\* C20 (failed-attack branch): no step() takes execute's failed-attack
\* branch, and whenever the agent goes from alive to dead a monster left in
\* the collection faces the cell the agent ends on, which is what the
\* end-of-step lethality scan tests.
C20_NoFailedAttack ==
    stepped =>
        /\ ~last.failed
        /\ died_now => facing_agent(agent, monsters)

\* the agent won its attack and the scan killed it in the same step
C20_Witness ==
    /\ died_now
    /\ last.action = "ATTACK"
    /\ ~last.failed
    /\ agent.kills = last.kills0 + 1

-----------------------------------------------------------------------------
(* monster_hunt.py with levels that can outrank the agent after a kill.  The *)
(* construction keeps in `last` the monsters as they were drawn, before      *)
(* ensure_weaker_monster; each step keeps them as execute left them.         *)

HuntLvl == 3

\* Environment.__init__ of monster_hunt.py, levels drawn from 1..HuntLvl
InitHunt ==
    /\ variant = "monster_hunt"
    /\ \E apos \in Cells, n \in 1..NMonsters :
         /\ agent = new_agent(apos)
         /\ \E ms \in placements(apos, n, 1..HuntLvl) :
              /\ monsters = ensure_weaker_monster(new_agent(apos), ms)
              /\ last = [no_step EXCEPT !.after = ms]
    /\ turn = 0

NextHunt == StepMH

SpecHunt == InitHunt /\ [][NextHunt]_vars

\* the monsters whose record the latest ensure_weaker_monster call changed
lowered == {i \in 1..Len(monsters) : monsters[i] # last.after[i]}

\* C21 ('always weaker'): after construction and after every step(), a
\* non-empty collection holds a monster of level <= agent.level, and the
\* latest ensure_weaker_monster call raised no level, touched nothing but
\* levels and changed at most one monster.
C21_AlwaysWeaker ==
    /\ monsters # <<>> => \E i \in 1..Len(monsters) : monsters[i].level <= agent.level
    /\ Len(monsters) = Len(last.after)
    /\ \A i \in 1..Len(monsters) :
          /\ monsters[i].level <= last.after[i].level
          /\ monsters[i] = [last.after[i] EXCEPT !.level = monsters[i].level]
    /\ Cardinality(lowered) <= 1

\* a kill left only a stronger monster, which was lowered to the agent's level
C21_Witness ==
    /\ stepped
    /\ last.action = "ATTACK"
    /\ monsters # <<>>
    /\ \A i \in 1..Len(last.after) : last.after[i].level > agent.level
    /\ Cardinality(lowered) = 1

-----------------------------------------------------------------------------
(* The cache of AStar1.py and SimpleBFS.py.  execute leaves known_monsters  *)
(* alone, so after a step the agent holds the cache as plan_action had it    *)
(* when it built the target list; `last` holds the monsters and the agent's  *)
(* cell of that moment.                                                      *)

PerceivingVariants == {"AStar1", "SimpleBFS"}

seen_positions == {mon_pos(last.seen[i]) : i \in 1..Len(last.seen)}

\* C22 (perception pruning): where plan_action builds its target list,
\* every cached position holds a live monster and every live monster
\* orthogonally next to the agent is cached.
C22_CachePruned ==
    (stepped /\ variant \in PerceivingVariants) =>
        /\ agent.known_monsters \subseteq seen_positions
        /\ \A pos \in seen_positions :
              manhattan(pos, last.pos0) = 1 => pos \in agent.known_monsters

\* a monster was defeated in an earlier step (from a neighbouring cell, so it
\* was cached then); now another one is cached and the defeated one is not
C22_Witness ==
    /\ stepped
    /\ variant \in PerceivingVariants
    /\ last.kills0 >= 1
    /\ agent.known_monsters # {}

-----------------------------------------------------------------------------
(* The lookahead of monster_hunt.py.  The planner sees the monsters after   *)
(* this step's rotation (last.seen); their next rotate_if_needed call is the *)
(* one of the next step().                                                   *)

\* the sort key of monster_hunt.py: (distance, level, position)
rank_seen(i) ==
    <<manhattan(mon_pos(last.seen[i]), last.pos0), last.seen[i].level,
      last.seen[i].r, last.seen[i].c>>

\* viable[0]
best_seen == CHOOSE i \in viable_seen :
                \A j \in viable_seen \ {i} : tuple_less(rank_seen(i), rank_seen(j))

\* the best-ranked viable target is next to the agent
beside_best ==
    /\ viable_seen # {}
    /\ manhattan(mon_pos(last.seen[best_seen]), last.pos0) = 1

\* its predicted facing points from it to the agent's cell
best_will_face_agent ==
    step_cell(mon_pos(last.seen[best_seen]), predict_facing(last.seen[best_seen])) = last.pos0

\* C23 (lookahead attack rule): predict_facing of a monster as the planner
\* sees it is the facing its next rotate_if_needed call gives it, which is
\* the facing it has after the next step's rotation; and next to its
\* best-ranked viable target the agent attacks it unless that predicted
\* facing points at the agent's cell, in which case it waits.
C23_Lookahead ==
    /\ [](stepped =>
            /\ \A i \in 1..Len(last.seen) :
                  predict_facing(last.seen[i]) = rotate_if_needed(last.seen[i]).facing
            /\ beside_best =>
                  IF best_will_face_agent
                  THEN last.action = "WAIT"
                  ELSE /\ last.action = "ATTACK"
                       /\ last.arg = mon_pos(last.seen[best_seen]))
    /\ [][\A i \in 1..Len(monsters), j \in 1..Len(monsters') :
             mon_pos(monsters[i]) = mon_pos(monsters'[j]) =>
                 monsters'[j].facing = predict_facing(monsters[i])]_vars

\* a stare-down against a monster that turns towards the agent next turn
C23_Witness ==
    /\ stepped
    /\ beside_best
    /\ best_will_face_agent
    /\ predict_facing(last.seen[best_seen]) # last.seen[best_seen].facing
    /\ last.action = "WAIT"

-----------------------------------------------------------------------------
(* What execute changes.  `last` keeps the agent's cell, level and kills     *)
(* from before the step, the monsters the planner saw and the monsters as    *)
(* execute left them; the end-of-step scan changes the alive flag only.      *)

\* execute left the agent's level and kills and the monster collection alone
only_position_may_differ ==
    /\ agent.level = last.level0
    /\ agent.kills = last.kills0
    /\ last.after = last.seen

\* C24 (frame of WAIT and MOVE): a step whose intent is WAIT leaves the
\* agent's position, level and kills and the monsters as execute found them;
\* a step whose intent is MOVE(d) puts the agent one cell further in
\* direction d and leaves level, kills and the monsters alone.
C24_Frame ==
    /\ last.action = "WAIT" =>
          /\ agent_pos(agent) = last.pos0
          /\ only_position_may_differ
    /\ last.action = "MOVE" =>
          /\ last.arg \in Facings
          /\ agent_pos(agent) = step_cell(last.pos0, last.arg)
          /\ manhattan(agent_pos(agent), last.pos0) = 1
          /\ only_position_may_differ

\* a move along a row with every monster still there
C24_Witness ==
    /\ last.action = "MOVE"
    /\ agent.c # last.pos0[2]
    /\ last.seen # <<>>
    /\ monsters # <<>>

-----------------------------------------------------------------------------
(* The stare-down of monster_hunt.py and the scans that follow it.           *)

\* the latest step was a stare-down: next to viable[0], whose predicted
\* facing points at the agent, the agent waited
stare_down ==
    /\ stepped
    /\ beside_best
    /\ best_will_face_agent
    /\ last.action = "WAIT"

stared_at == mon_pos(last.seen[best_seen])

\* the monster on cell pos looks at the cell of agent a
faces_agent(ms, a, pos) ==
    \E j \in 1..Len(ms) : mon_pos(ms[j]) = pos /\ ahead(ms[j]) = agent_pos(a)

\* C25 (stare-down protects the agent): after a stare-down the target does
\* not kill the agent, neither in the scan of that step nor in the scan of
\* the following step.
C25_StareDownSafe ==
    /\ []((stare_down /\ last.alive0) => ~faces_agent(monsters, agent, stared_at))
    /\ [][(stare_down /\ agent.alive) => ~faces_agent(monsters', agent', stared_at)]_vars

-----------------------------------------------------------------------------
(* The route behind a MOVE of AStar1.py: the loop over the sorted targets,   *)
(* followed again to tell which path the planner took and for which target.  *)

no_route == [target |-> <<>>, path |-> <<>>]

RECURSIVE route(_, _, _, _)
\* the target and the path of the MOVE that try_targets returns, no_route
\* when it returns ATTACK or WAIT
route(a, ms, targets, i) ==
    IF i > Len(targets) THEN no_route
    ELSE
      LET t == targets[i]
          target_pos == <<t[Len(t) - 1], t[Len(t)]>>
          found(path) == IF path # <<>> THEN [target |-> target_pos, path |-> path]
                         ELSE route(a, ms, targets, i + 1)
      IN
      IF manhattan(target_pos, agent_pos(a)) = 1 THEN no_route
      ELSE found(first_path("AStar1", a, ms,
                            safe_positions(ms, target_pos, monster_at(ms, target_pos).facing), 1))

\* the route of the call whose result `last` holds
route_now ==
    route(agent, monsters,
          sorted({<<manhattan(mon_pos(monsters[i]), agent_pos(agent)), -monsters[i].level,
                    monsters[i].r, monsters[i].c>> : i \in viable_now}), 1)

RECURSIVE cell_after(_, _, _)
\* the cell reached from pos by the first k directions of path
cell_after(pos, path, k) ==
    IF k = 0 THEN pos ELSE step_cell(cell_after(pos, path, k - 1), path[k])

\* C26 (path validity, AStar1.py): a MOVE is the first direction of a
\* non-empty path that enters only in-bounds cells holding no monster and
\* faced by no monster, and that ends next to a viable target on a cell
\* other than the one that target faces.
C26_PathValid ==
    (plan_made /\ variant = "AStar1" /\ last.action = "MOVE") =>
        LET valid(found) ==
              /\ found.path # <<>>
              /\ last.arg = found.path[1]
              /\ \A k \in 1..Len(found.path) :
                    LET cell == cell_after(agent_pos(agent), found.path, k)
                    IN /\ cell \in Cells
                       /\ cell \notin monster_keys(monsters)
                       /\ cell \notin cells_ahead
              /\ \E i \in viable_now :
                    LET goal == cell_after(agent_pos(agent), found.path, Len(found.path))
                    IN /\ mon_pos(monsters[i]) = found.target
                       /\ manhattan(goal, found.target) = 1
                       /\ goal # ahead(monsters[i])
        IN valid(route_now)

\* a path of several steps that goes round the cell a monster faces
C26_Witness ==
    /\ plan_made
    /\ variant = "AStar1"
    /\ last.action = "MOVE"
    /\ Len(route_now.path) > manhattan(agent_pos(agent),
                                       cell_after(agent_pos(agent), route_now.path,
                                                  Len(route_now.path)))

-----------------------------------------------------------------------------
(* The agent's cell.  execute adds the direction's vector with no test.      *)

\* C27 (agent stays on the grid): in every reachable state of every variant
\* 0 <= agent.r < R and 0 <= agent.c < C.
C27_OnGrid == agent_pos(agent) \in Cells

\* a move took the agent to the last row of the grid
C27_Witness ==
    /\ last.action = "MOVE"
    /\ last.pos0[1] = Rows - 2
    /\ agent.r = Rows - 1

-----------------------------------------------------------------------------
(* Counting monsters and kills along a run.                                  *)

\* C28 (conservation): level = kills + 1 in every state; kills start at 0
\* and every step keeps kills + number of monsters, so the sum is the
\* initial monster count; a step adds or moves no monster and removes at
\* most one.
C28_Conservation ==
    /\ agent.kills = 0
    /\ [](agent.level = agent.kills + 1)
    /\ [][/\ agent'.kills + Len(monsters') = agent.kills + Len(monsters)
          /\ monster_keys(monsters') \subseteq monster_keys(monsters)
          /\ Len(monsters) - Len(monsters') \in {0, 1}]_vars

\* one monster of several was killed
C28_Witness ==
    /\ last.action = "ATTACK"
    /\ Len(last.seen) = Len(monsters) + 1
    /\ agent.kills = last.kills0 + 1
    /\ monsters # <<>>

-----------------------------------------------------------------------------
(* Viable targets in the variants that build levels 1..n.                    *)

\* C29 (a viable target always exists, ascending-level variants): a
\* non-empty collection always holds a monster of level <= agent.level, and
\* a plan_action call that sees monsters finds a viable one among them, so
\* it does not leave through "if not targets: return WAIT".
C29_ViableExists ==
    /\ monsters # <<>> => \E i \in 1..Len(monsters) : monsters[i].level <= agent.level
    /\ (stepped /\ last.seen # <<>>) => viable_seen # {}

\* after a kill the planner sees a monster that the kill has made viable
C29_Witness ==
    /\ stepped
    /\ last.kills0 >= 1
    /\ \E i \in viable_seen : last.seen[i].level = last.level0 /\ last.level0 > 1

-----------------------------------------------------------------------------
(* step() on a dead agent.                                                   *)

\* the monsters without their facings and counters
placed(ms) == {<<mon_pos(ms[i]), ms[i].level>> : i \in 1..Len(ms)}

\* C30 (death is terminal): a step() call made when agent.alive is false
\* leaves the agent's position, level and kills and the monster collection
\* (positions and levels) as they were.
C30_DeathTerminal ==
    [][~agent.alive =>
          /\ agent_pos(agent') = agent_pos(agent)
          /\ agent'.level = agent.level
          /\ agent'.kills = agent.kills
          /\ placed(monsters') = placed(monsters)]_vars

-----------------------------------------------------------------------------
(* The two drivers of monster_hunt.py: the console loop of its __main__ and  *)
(* main() of monster_hunt_ui.py.  `variant` tells which driver runs; `last`  *)
(* keeps the latest step() call's record together with the window's flags,  *)
(* the place in the frame loop and whether the latest action called step(). *)

UIMonsters == 1
MaxResets == 1

Drivers == {"monster_hunt", "monster_hunt_ui"}

\* new_env(): any seed, so any environment the constructor can build
new_env ==
    UNION {{[agent |-> new_agent(apos), monsters |-> ensure_weaker_monster(new_agent(apos), ms)] :
               ms \in placements(apos, UIMonsters, 1..MaxLvl)} : apos \in Cells}

\* the latest step() call of the current environment and the locals of
\* main(): paused, running, whether the frame is reading events or at the
\* timer test, whether the latest action called env.step(), and the number
\* of resets so far
ui_record(step, paused, running, at, called, resets) ==
    [action |-> step.action, arg |-> step.arg, alive0 |-> step.alive0, seen |-> step.seen,
     paused |-> paused, running |-> running, at |-> at, called |-> called,
     resets |-> resets]

InitUI ==
    /\ variant \in Drivers
    /\ \E env \in new_env : agent = env.agent /\ monsters = env.monsters
    /\ turn = 0
    /\ last = ui_record(no_step, FALSE, TRUE, "events", FALSE, 0)

\* env.step() as a driver calls it
env_step ==
    /\ turn < MaxTurn
    /\ LET stepped_to(result) ==
               /\ agent' = result.agent
               /\ monsters' = result.monsters
               /\ last' = ui_record(result.last, last.paused, last.running,
                                    IF variant = "monster_hunt_ui" /\ last.at = "timer"
                                    THEN IF last.running THEN "events" ELSE "done"
                                    ELSE last.at,
                                    TRUE, last.resets)
       IN stepped_to(step_MH(agent, monsters, turn + 1))
    /\ turn' = turn + 1
    /\ UNCHANGED variant

\* monster_hunt.py __main__: while env.agent.alive and env.monsters: env.step()
ConsoleStep ==
    /\ variant = "monster_hunt"
    /\ agent.alive
    /\ monsters # <<>>
    /\ env_step

reading_events == variant = "monster_hunt_ui" /\ last.at = "events"

\* pg.QUIT, or KEYDOWN of ESC or q: running = False
KeyQuit ==
    /\ reading_events
    /\ last' = [last EXCEPT !.running = FALSE, !.called = FALSE]
    /\ UNCHANGED <<variant, agent, monsters, turn>>

\* KEYDOWN of SPACE: paused = not paused
KeySpace ==
    /\ reading_events
    /\ last' = [last EXCEPT !.paused = ~last.paused, !.called = FALSE]
    /\ UNCHANGED <<variant, agent, monsters, turn>>

\* KEYDOWN of n while paused: env.step()
KeyN ==
    /\ reading_events
    /\ last.paused
    /\ env_step

\* KEYDOWN of r: env = new_env(); paused = False
KeyR ==
    /\ reading_events
    /\ last.resets < MaxResets
    /\ \E env \in new_env : agent' = env.agent /\ monsters' = env.monsters
    /\ turn' = 0
    /\ last' = ui_record(no_step, FALSE, last.running, last.at, FALSE, last.resets + 1)
    /\ UNCHANGED variant

\* pg.event.get() is exhausted: the frame goes on to the timer test
EventsRead ==
    /\ reading_events
    /\ last' = [last EXCEPT !.at = "timer", !.called = FALSE]
    /\ UNCHANGED <<variant, agent, monsters, turn>>

at_timer == variant = "monster_hunt_ui" /\ last.at = "timer"

\* not paused and STEP_MS have passed, the game is on: env.step(), then the
\* frame is drawn and `while running` is tested
TimerStep ==
    /\ at_timer
    /\ ~last.paused
    /\ agent.alive
    /\ monsters # <<>>
    /\ env_step

\* paused, or STEP_MS have not passed, or the game is over: the frame is
\* drawn and `while running` is tested
TimerIdle ==
    /\ at_timer
    /\ last' = [last EXCEPT !.at = IF last.running THEN "events" ELSE "done",
                            !.called = FALSE]
    /\ UNCHANGED <<variant, agent, monsters, turn>>

NextUI ==
    \/ ConsoleStep
    \/ KeyQuit
    \/ KeySpace
    \/ KeyN
    \/ KeyR
    \/ EventsRead
    \/ TimerStep
    \/ TimerIdle

SpecUI == InitUI /\ [][NextUI]_vars

\* C31 (the driver never steps a finished game): whenever a driver has just
\* called env.step(), the environment it was called on had a live agent and
\* a non-empty monster collection.
C31_StepsOnlyLiveGame ==
    last.called => last.alive0 /\ last.seen # <<>>

-----------------------------------------------------------------------------
(* The perception-limited variant alone, and what its agent knows.           *)

NextBB == StepBB

SpecBB == InitBB /\ [][NextBB]_vars

\* C32 (BasicBFS.py, knowledge and ground truth): after construction and
\* after every step, every position in known_monsters holds a live monster,
\* no cell of known_free holds a live monster, the agent's own cell is in
\* known_free and so holds no monster; and every ATTACK a step issues is
\* aimed at a position that was in known_monsters before the step or that
\* perceive adds in the step (a live monster on an adjacent cell).
C32_KnowledgeConsistent ==
    /\ [](/\ agent.known_monsters \subseteq monster_keys(monsters)
          /\ agent.known_free \cap monster_keys(monsters) = {}
          /\ agent_pos(agent) \in agent.known_free
          /\ agent_pos(agent) \notin monster_keys(monsters))
    /\ [][last'.action = "ATTACK" =>
             \/ last'.arg \in agent.known_monsters
             \/ /\ manhattan(last'.arg, agent_pos(agent)) = 1
                /\ has_monster(monsters, last'.arg)]_vars

\* the agent has just moved while it knew one monster and not the other
C32_Witness ==
    /\ stepped
    /\ last.action = "MOVE"
    /\ agent_pos(agent) # last.pos0
    /\ agent.known_monsters # {}
    /\ monster_keys(monsters) \ agent.known_monsters # {}

=============================================================================
